---- MODULE Spec2Model ----
(***************************************************************************)
(* The trainer of haber-gpt (src/trainer.py): the learning-rate schedule,  *)
(* batch sampling, the evaluation / checkpoint step and the training loop. *)
(*                                                                         *)
(* Python floats are modelled as binary floating-point numbers with a      *)
(* MantBits-bit significand and round-to-nearest-even, so that every       *)
(* arithmetic operation of the source rounds as it does in the program.    *)
(***************************************************************************)
EXTENDS Integers, Sequences, FiniteSets, TLC

VARIABLES
    config,        \* the TrainerConfig of the run
    data,          \* the two token files: [train |-> tokens, val |-> tokens]
    pc,            \* position of the running call
    iter,          \* loop variable of Trainer.train
    lr,            \* local lr of Trainer.train
    best_val_loss, \* local best_val_loss of Trainer.train
    param_groups,  \* optimizer.param_groups: the lr of each group
    training,      \* model.training
    X, Y,          \* the batch held by Trainer.train
    est,           \* locals of the running estimate_loss call (NoEst outside do_eval)
    ckpt,          \* content of {out_dir}/ckpt.pt
    sink,          \* the metrics sink: number of records received, of failed pushes
    running_fwd_bwd_tokens_per_sec,
    running_iter_time,
    exc,           \* the exception that ended the run, or "none"
    hist,          \* history of the run: evaluations, saves and optimizer steps
    ret            \* arguments and result of the last call of a pure function

vars == <<config, data, pc, iter, lr, best_val_loss, param_groups, training,
          X, Y, est, ckpt, sink, running_fwd_bwd_tokens_per_sec,
          running_iter_time, exc, hist, ret>>

----------------------------------------------------------------------------
(* Bounds of the model *)

MantBits == 4        \* bits of the significand of a modelled float
MaxIters == 3        \* largest warmup_iters / lr_decay_iters / max_iters
MaxCorpus == 4       \* largest corpus length
MaxLoss == 2         \* largest loss of a batch

----------------------------------------------------------------------------
(* Floating point: the value of [m |-> m, e |-> e] is m * 2^e; either      *)
(* m = 0 and e = 0, or 2^(MantBits-1) <= |m| < 2^MantBits.                 *)

RECURSIVE Pow2(_)
Pow2(k) == IF k <= 0 THEN 1 ELSE 2 * Pow2(k - 1)

RECURSIVE BitLen(_)
BitLen(n) == IF n = 0 THEN 0 ELSE 1 + BitLen(n \div 2)

Abs(n) == IF n < 0 THEN -n ELSE n

Sgn(n) == IF n < 0 THEN -1 ELSE IF n = 0 THEN 0 ELSE 1

FZero == [m |-> 0, e |-> 0]

\* the float nearest to m * 2^e, ties to even
FRound(m, e) ==
    LET a == Abs(m)
        k == BitLen(a) - MantBits
    IN  IF m = 0 THEN FZero
        ELSE IF k <= 0 THEN [m |-> m * Pow2(-k), e |-> e + k]
        ELSE LET q    == a \div Pow2(k)
                 r    == a % Pow2(k)
                 half == Pow2(k - 1)
                 q2   == IF r > half \/ (r = half /\ q % 2 = 1) THEN q + 1 ELSE q
             IN  IF q2 = Pow2(MantBits)
                 THEN [m |-> Sgn(m) * Pow2(MantBits - 1), e |-> e + k + 1]
                 ELSE [m |-> Sgn(m) * q2, e |-> e + k]

\* float(n) for an int n
FromInt(n) == FRound(n, 0)

FNeg(a) == [m |-> -a.m, e |-> a.e]

FAdd(a, b) ==
    IF a.m = 0 THEN b
    ELSE IF b.m = 0 THEN a
    ELSE LET e == IF a.e < b.e THEN a.e ELSE b.e
         IN  FRound(a.m * Pow2(a.e - e) + b.m * Pow2(b.e - e), e)

FSub(a, b) == FAdd(a, FNeg(b))

FMul(a, b) == FRound(a.m * b.m, a.e + b.e)

\* the float nearest to n / d, for ints n and d # 0 (Python's int / int)
FDivInt(n, d) ==
    LET an == Abs(n)
        ad == Abs(d)
        k  == MantBits + 2 + BitLen(ad)
        q  == (an * Pow2(k)) \div ad
        st == IF (an * Pow2(k)) % ad = 0 THEN 0 ELSE 1
    IN  FRound(Sgn(n) * Sgn(d) * (2 * q + st), -(k + 1))

\* a / b for floats, b # 0
FDiv(a, b) ==
    LET x == FDivInt(a.m, b.m)
    IN  IF x.m = 0 THEN FZero ELSE [m |-> x.m, e |-> x.e + a.e - b.e]

\* a < b
FLt(a, b) ==
    IF Sgn(a.m) # Sgn(b.m) THEN a.m < b.m
    ELSE IF a.m > 0
         THEN a.e < b.e \/ (a.e = b.e /\ a.m < b.m)
         ELSE a.e > b.e \/ (a.e = b.e /\ a.m < b.m)

FLe(a, b) == a = b \/ FLt(a, b)

FOne == FromInt(1)

\* the floats next above and next below a positive float a
FNextUp(a) ==
    IF a.m = Pow2(MantBits) - 1
    THEN [m |-> Pow2(MantBits - 1), e |-> a.e + 1]
    ELSE [m |-> a.m + 1, e |-> a.e]

FNextDown(a) ==
    IF a.m = Pow2(MantBits - 1)
    THEN [m |-> Pow2(MantBits) - 1, e |-> a.e - 1]
    ELSE [m |-> a.m - 1, e |-> a.e]

----------------------------------------------------------------------------
(* math.pi and math.cos: cos is evaluated by its Taylor series in fixed    *)
(* point with FixBits fractional bits and rounded to a float.              *)

FixBits == 12
FixOne == Pow2(FixBits)
FixPi == 12868          \* pi * 2^12, rounded

MathPi == FRound(FixPi, -FixBits)

\* the fixed-point value of a float 0 <= a < 8
ToFix(a) ==
    IF a.e >= 0 THEN a.m * Pow2(a.e) * FixOne
    ELSE IF -a.e <= FixBits THEN a.m * Pow2(FixBits + a.e)
    ELSE a.m \div Pow2(-a.e - FixBits)

\* cos(y) for 0 <= y <= pi/2 in fixed point
FixCos(y) ==
    LET y2 == (y * y) \div FixOne
        y4 == (y2 * y2) \div FixOne
        y6 == (y4 * y2) \div FixOne
        y8 == (y4 * y4) \div FixOne
        c  == FixOne - (y2 \div 2) + (y4 \div 24) - (y6 \div 720) + (y8 \div 40320)
    IN  IF c < 0 THEN 0 ELSE IF c > FixOne THEN FixOne ELSE c

\* math.cos(a) for a float 0 <= a <= 3.5
MathCos(a) ==
    LET x == ToFix(a)
    IN  IF 2 * x <= FixPi THEN FRound(FixCos(x), -FixBits)
        ELSE FRound(-FixCos(Abs(FixPi - x)), -FixBits)

----------------------------------------------------------------------------
(* Results of calls: a value, or the exception the call raised *)

Returned(v) == [exc |-> "none", val |-> v]

Raised(e) == [exc |-> e, val |-> FZero]

FHalf == FRound(1, -1)

\* get_lr with coeff = 1.0 + cos(..), not halved
get_lr_no_half(c, it) ==
    IF it < c.warmup_iters
    THEN Returned(FDiv(FMul(c.learning_rate, FromInt(it)), FromInt(c.warmup_iters)))
    ELSE IF it > c.lr_decay_iters
    THEN Returned(c.min_lr)
    ELSE IF c.lr_decay_iters - c.warmup_iters = 0
    THEN Raised("ZeroDivisionError")
    ELSE LET decay_ratio == FDivInt(it - c.warmup_iters, c.lr_decay_iters - c.warmup_iters)
             coeff == FAdd(FOne, MathCos(FMul(MathPi, decay_ratio)))
         IN  IF ~(FLe(FZero, decay_ratio) /\ FLe(decay_ratio, FOne))
             THEN Raised("AssertionError")
             ELSE Returned(FAdd(c.min_lr, FMul(coeff, FSub(c.learning_rate, c.min_lr))))

\* get_lr with the warmup ramp learning_rate * (it + 1) / warmup_iters
get_lr_warmup_plus_one(c, it) ==
    IF it < c.warmup_iters
    THEN Returned(FDiv(FMul(c.learning_rate, FromInt(it + 1)), FromInt(c.warmup_iters)))
    ELSE IF it > c.lr_decay_iters
    THEN Returned(c.min_lr)
    ELSE IF c.lr_decay_iters - c.warmup_iters = 0
    THEN Raised("ZeroDivisionError")
    ELSE LET decay_ratio == FDivInt(it - c.warmup_iters, c.lr_decay_iters - c.warmup_iters)
             coeff == FMul(FHalf, FAdd(FOne, MathCos(FMul(MathPi, decay_ratio))))
         IN  IF ~(FLe(FZero, decay_ratio) /\ FLe(decay_ratio, FOne))
             THEN Raised("AssertionError")
             ELSE Returned(FAdd(c.min_lr, FMul(coeff, FSub(c.learning_rate, c.min_lr))))

\* Trainer.get_lr
get_lr(c, it) ==
    IF it < c.warmup_iters
    THEN Returned(FDiv(FMul(c.learning_rate, FromInt(it)), FromInt(c.warmup_iters)))
    ELSE IF it > c.lr_decay_iters
    THEN Returned(c.min_lr)
    ELSE IF c.lr_decay_iters - c.warmup_iters = 0
    THEN Raised("ZeroDivisionError")
    ELSE LET decay_ratio == FDivInt(it - c.warmup_iters, c.lr_decay_iters - c.warmup_iters)
             coeff == FMul(FHalf, FAdd(FOne, MathCos(FMul(MathPi, decay_ratio))))
         IN  IF ~(FLe(FZero, decay_ratio) /\ FLe(decay_ratio, FOne))
             THEN Raised("AssertionError")
             ELSE Returned(FAdd(c.min_lr, FMul(coeff, FSub(c.learning_rate, c.min_lr))))

\* update_lr writing the first parameter group only
update_lr_first_group(c, it, groups) ==
    IF ~c.decay_lr
    THEN [out |-> Returned(c.learning_rate), groups |-> groups]
    ELSE LET r == get_lr(c, it)
         IN  IF r.exc # "none"
             THEN [out |-> r, groups |-> groups]
             ELSE [out |-> r,
                   groups |-> [g \in DOMAIN groups |-> IF g = 1 THEN r.val ELSE groups[g]]]

\* update_lr without the test of decay_lr
update_lr_ignore_flag(c, it, groups) ==
    LET r == get_lr(c, it)
    IN  IF r.exc # "none"
        THEN [out |-> r, groups |-> groups]
        ELSE [out |-> r, groups |-> [g \in DOMAIN groups |-> r.val]]

\* Trainer.update_lr: the value returned and the parameter groups it leaves
update_lr(c, it, groups) ==
    IF ~c.decay_lr
    THEN [out |-> Returned(c.learning_rate), groups |-> groups]
    ELSE LET r == get_lr(c, it)
         IN  IF r.exc # "none"
             THEN [out |-> r, groups |-> groups]
             ELSE [out |-> r, groups |-> [g \in DOMAIN groups |-> r.val]]

----------------------------------------------------------------------------
(* Configurations *)

\* the floats of the learning rates: two binades, and zero
RateValues ==
    {FZero} \cup {[m |-> m, e |-> e] : m \in Pow2(MantBits - 1)..(Pow2(MantBits) - 1),
                                       e \in {-(MantBits + 2), -(MantBits + 1)}}

NoData == [train |-> <<>>, val |-> <<>>]

NoEst == [split |-> 0, k |-> 0, losses |-> <<>>, out |-> <<>>]

NoHist == [events |-> <<>>, evals |-> <<>>, steps |-> 0, step_lrs |-> <<>>,
           saves |-> 0, min_val |-> FromInt(1000000000)]

NoSink == [n |-> 0, failures |-> 0]

NoRet == [fn |-> "none", it |-> 0, out |-> Returned(FZero)]

\* the state of a trainer that has been constructed and has not begun train
Idle ==
    /\ pc = "idle"
    /\ iter = 0
    /\ lr = FZero
    /\ best_val_loss = FZero
    /\ param_groups = <<>>
    /\ training = TRUE
    /\ X = <<>>
    /\ Y = <<>>
    /\ est = NoEst
    /\ ckpt = <<>>
    /\ sink = NoSink
    /\ running_fwd_bwd_tokens_per_sec = FZero
    /\ running_iter_time = FZero
    /\ exc = "none"
    /\ hist = NoHist
    /\ ret = NoRet

----------------------------------------------------------------------------
(* The schedule as a function: get_lr applied to any iteration of any      *)
(* configuration of the schedule's fields.                                 *)

LrConfigs ==
    [seq_length : {1}, batch_size : {1}, eval_iters : {1},
     eval_interval : {1}, log_interval : {1}, wandb_log : {FALSE},
     decay_lr : {TRUE},
     warmup_iters : 0..MaxIters, lr_decay_iters : 0..MaxIters,
     max_iters : {MaxIters},
     learning_rate : RateValues, min_lr : RateValues]

InitLr ==
    /\ config \in LrConfigs
    /\ data = NoData
    /\ Idle

CallGetLr ==
    /\ \E it \in 0..(MaxIters + 1) :
          ret' = [fn |-> "get_lr", it |-> it, out |-> get_lr(config, it)]
    /\ UNCHANGED <<config, data, pc, iter, lr, best_val_loss, param_groups,
                   training, X, Y, est, ckpt, sink,
                   running_fwd_bwd_tokens_per_sec, running_iter_time, exc, hist>>

NextLr == CallGetLr

SpecLr == InitLr /\ [][NextLr]_vars

----------------------------------------------------------------------------
(* Trainer.get_batch *)

\* data[a:b] of numpy: positions a..b-1 (0-based), clipped to the array
Slice(d, a, b) ==
    LET hi == IF b > Len(d) THEN Len(d) ELSE b
    IN  [j \in 1..(IF hi > a THEN hi - a ELSE 0) |-> d[a + j]]

\* the start indices torch.randint(high, (batch_size,)) can return
RandInt(high, n) == [1..n -> 0..(high - 1)]

\* high of the randint call of get_batch
BatchHigh(c, d) == Len(d) - c.seq_length

\* get_batch with targets cut at the same offset as the inputs
get_batch_unshifted(c, d, ix) ==
    [ix |-> ix,
     x  |-> [k \in DOMAIN ix |-> Slice(d, ix[k], ix[k] + c.seq_length)],
     y  |-> [k \in DOMAIN ix |-> Slice(d, ix[k], ix[k] + c.seq_length)]]

\* the batch get_batch builds from the start indices ix
get_batch(c, d, ix) ==
    [ix |-> ix,
     x  |-> [k \in DOMAIN ix |-> Slice(d, ix[k], ix[k] + c.seq_length)],
     y  |-> [k \in DOMAIN ix |-> Slice(d, ix[k] + 1, ix[k] + 1 + c.seq_length)]]

----------------------------------------------------------------------------
(* Trainer.train and Trainer.do_eval *)

\* best_val_loss = 1e+9
BestInit == FromInt(1000000000)

\* the literals 0.9 and 0.1
F09 == FDivInt(9, 10)
F01 == FDivInt(1, 10)

\* the loss.item() values a forward pass can produce
LossValues == {FromInt(n) : n \in 1..MaxLoss}

\* the t1 - t0 values a timed iteration can produce
DtValues == {FRound(1, -1), FRound(1, -2)}

\* sum of a sequence of floats, left to right
RECURSIVE FSum(_)
FSum(q) == IF q = <<>> THEN FZero ELSE FAdd(FSum(SubSeq(q, 1, Len(q) - 1)), q[Len(q)])

\* losses.mean()
Mean(q) == FDiv(FSum(q), FromInt(Len(q)))

Splits == <<"train", "val">>

\* Trainer._configure_optimizers: two parameter groups with lr=learning_rate
configure_optimizers(c) == <<c.learning_rate, c.learning_rate>>

\* train, lines 157-181: logging, optimizer, model.train(), first batch, locals
TrainSetup ==
    /\ pc = "idle"
    /\ BatchHigh(config, data.train) > 0
    /\ \E ix \in RandInt(BatchHigh(config, data.train), config.batch_size) :
          LET b == get_batch(config, data.train, ix)
          IN  X' = b.x /\ Y' = b.y
    /\ param_groups' = configure_optimizers(config)
    /\ training' = TRUE
    /\ iter' = 0
    /\ best_val_loss' = BestInit
    /\ running_fwd_bwd_tokens_per_sec' = FZero
    /\ running_iter_time' = FZero
    /\ pc' = "update_lr"
    /\ UNCHANGED <<config, data, lr, est, ckpt, sink, exc, hist, ret>>

\* train, line 185
TrainUpdateLr ==
    /\ pc = "update_lr"
    /\ LET u == update_lr(config, iter, param_groups)
           raised == u.out.exc # "none"
       IN  /\ exc' = IF raised THEN u.out.exc ELSE exc
           /\ lr' = IF raised THEN lr ELSE u.out.val
           /\ param_groups' = u.groups
           /\ pc' = IF raised THEN "raised"
                    ELSE IF iter % config.eval_interval = 0 THEN "eval" ELSE "forward"
    /\ hist' = [hist EXCEPT !.events = Append(@, <<"update_lr", iter>>)]
    /\ UNCHANGED <<config, data, iter, best_val_loss, training, X, Y, est, ckpt,
                   sink, running_fwd_bwd_tokens_per_sec, running_iter_time, ret>>

\* estimate_loss, lines 142-143
EstimateBegin ==
    /\ pc = "eval"
    /\ training' = FALSE
    /\ est' = [split |-> 1, k |-> 0, losses |-> <<>>, out |-> <<>>]
    /\ pc' = "estimate"
    /\ hist' = [hist EXCEPT !.events = Append(@, <<"eval", iter>>)]
    /\ UNCHANGED <<config, data, iter, lr, best_val_loss, param_groups, X, Y, ckpt,
                   sink, running_fwd_bwd_tokens_per_sec, running_iter_time, exc, ret>>

\* estimate_loss, lines 146-151: one batch of one split; the mean after the last
EstimateBatch ==
    /\ pc = "estimate"
    /\ est.split <= Len(Splits)
    /\ BatchHigh(config, data[Splits[est.split]]) > 0
    /\ \E ix \in RandInt(BatchHigh(config, data[Splits[est.split]]), config.batch_size) :
       \E loss \in LossValues :
          LET losses == Append(est.losses, loss)
          IN  est' = IF est.k + 1 < config.eval_iters
                     THEN [est EXCEPT !.k = @ + 1, !.losses = losses]
                     ELSE [split |-> est.split + 1, k |-> 0, losses |-> <<>>,
                           out |-> Append(est.out, Mean(losses))]
    /\ UNCHANGED <<config, data, pc, iter, lr, best_val_loss, param_groups, training,
                   X, Y, ckpt, sink, running_fwd_bwd_tokens_per_sec,
                   running_iter_time, exc, hist, ret>>

\* estimate_loss, lines 147-149: get_batch or the forward pass raises
EstimateRaise ==
    /\ pc = "estimate"
    /\ est.split <= Len(Splits)
    /\ \E e \in {"BatchError", "ForwardError"} : exc' = e
    /\ pc' = "raised"
    /\ est' = NoEst
    /\ UNCHANGED <<config, data, iter, lr, best_val_loss, param_groups, training,
                   X, Y, ckpt, sink, running_fwd_bwd_tokens_per_sec,
                   running_iter_time, hist, ret>>

\* estimate_loss returning without model.train()
EstimateEndNoRestore ==
    /\ pc = "estimate"
    /\ est.split > Len(Splits)
    /\ pc' = "sink"
    /\ UNCHANGED <<config, data, iter, lr, best_val_loss, param_groups, training,
                   X, Y, est, ckpt, sink, running_fwd_bwd_tokens_per_sec,
                   running_iter_time, exc, hist, ret>>

\* estimate_loss, lines 152-153
EstimateEnd ==
    /\ pc = "estimate"
    /\ est.split > Len(Splits)
    /\ training' = TRUE
    /\ pc' = "sink"
    /\ UNCHANGED <<config, data, iter, lr, best_val_loss, param_groups, X, Y, est,
                   ckpt, sink, running_fwd_bwd_tokens_per_sec, running_iter_time,
                   exc, hist, ret>>

\* do_eval, lines 226-234: the record is pushed when wandb_log
EvalLog ==
    /\ pc = "sink"
    /\ sink' = IF config.wandb_log
               THEN [sink EXCEPT !.n = @ + 1]
               ELSE sink
    /\ pc' = "checkpoint"
    /\ UNCHANGED <<config, data, iter, lr, best_val_loss, param_groups, training,
                   X, Y, est, ckpt, running_fwd_bwd_tokens_per_sec,
                   running_iter_time, exc, hist, ret>>

\* a do_eval that catches the failure of wandb.log and goes on
EvalLogSwallow ==
    /\ pc = "sink"
    /\ config.wandb_log
    /\ sink' = [sink EXCEPT !.failures = @ + 1]
    /\ pc' = "checkpoint"
    /\ UNCHANGED <<config, data, iter, lr, best_val_loss, param_groups, training,
                   X, Y, est, ckpt, running_fwd_bwd_tokens_per_sec,
                   running_iter_time, exc, hist, ret>>

\* do_eval, line 228: wandb.log raises
EvalLogRaise ==
    /\ pc = "sink"
    /\ config.wandb_log
    /\ exc' = "SinkError"
    /\ pc' = "raised"
    /\ est' = NoEst
    /\ sink' = [sink EXCEPT !.failures = @ + 1]
    /\ UNCHANGED <<config, data, iter, lr, best_val_loss, param_groups, training,
                   X, Y, ckpt, running_fwd_bwd_tokens_per_sec,
                   running_iter_time, hist, ret>>

\* the condition without its test of iter
ShouldSaveAnyIter(val, best, it) == FLt(val, best)

\* the condition of lines 236 and 238
ShouldSave(val, best, it) == FLt(val, best) /\ it > 0

\* do_eval, lines 236-248; the best_val_loss it assigns is its own local
EvalCheckpoint ==
    /\ pc = "checkpoint"
    /\ LET val == est.out[2]
           new_best == IF FLt(val, best_val_loss) THEN val ELSE best_val_loss
       IN  /\ ckpt' = IF ShouldSave(val, best_val_loss, iter)
                      THEN <<[model |-> hist.steps, optimizer |-> param_groups,
                              iter_num |-> iter, best_val_loss |-> new_best]>>
                      ELSE ckpt
           /\ hist' = [hist EXCEPT
                         !.evals = Append(@, iter),
                         !.min_val = IF FLt(val, @) THEN val ELSE @,
                         !.saves = IF ShouldSave(val, best_val_loss, iter)
                                   THEN @ + 1 ELSE @]
    /\ pc' = "forward"
    /\ est' = NoEst
    /\ UNCHANGED <<config, data, iter, lr, best_val_loss, param_groups, training,
                   X, Y, sink, running_fwd_bwd_tokens_per_sec,
                   running_iter_time, exc, ret>>

\* train, lines 191-193
TrainForward ==
    /\ pc = "forward"
    /\ pc' = "prefetch"
    /\ hist' = [hist EXCEPT !.events = Append(@, <<"forward", iter>>)]
    /\ UNCHANGED <<config, data, iter, lr, best_val_loss, param_groups, training,
                   X, Y, est, ckpt, sink, running_fwd_bwd_tokens_per_sec,
                   running_iter_time, exc, ret>>

\* train, line 196
TrainPrefetch ==
    /\ pc = "prefetch"
    /\ BatchHigh(config, data.train) > 0
    /\ \E ix \in RandInt(BatchHigh(config, data.train), config.batch_size) :
          LET b == get_batch(config, data.train, ix)
          IN  X' = b.x /\ Y' = b.y
    /\ pc' = "step"
    /\ UNCHANGED <<config, data, iter, lr, best_val_loss, param_groups, training,
                   est, ckpt, sink, running_fwd_bwd_tokens_per_sec,
                   running_iter_time, exc, hist, ret>>

\* train, lines 198-201
TrainStep ==
    /\ pc = "step"
    /\ hist' = [hist EXCEPT !.steps = @ + 1,
                            !.step_lrs = param_groups,
                            !.events = Append(@, <<"step", iter>>)]
    /\ pc' = "log"
    /\ UNCHANGED <<config, data, iter, lr, best_val_loss, param_groups, training,
                   X, Y, est, ckpt, sink, running_fwd_bwd_tokens_per_sec,
                   running_iter_time, exc, ret>>

\* a sample taken in every iteration, whatever log_interval is
TrainLogSampleEveryIter ==
    /\ pc = "log"
    /\ \E dt \in DtValues :
          LET fwd_bwd_tokens == config.batch_size * config.seq_length
              fwd_bwd_tokens_per_sec ==
                  FMul(FromInt(fwd_bwd_tokens), FDiv(FOne, dt))
              first == running_fwd_bwd_tokens_per_sec = FZero
          IN  /\ running_fwd_bwd_tokens_per_sec' =
                    IF first THEN fwd_bwd_tokens_per_sec
                    ELSE FAdd(FMul(F09, running_fwd_bwd_tokens_per_sec),
                              FMul(F01, fwd_bwd_tokens_per_sec))
              /\ running_iter_time' =
                    IF first THEN dt
                    ELSE FAdd(FMul(F09, running_iter_time), FMul(F01, dt))
    /\ iter' = IF iter + 1 < config.max_iters + 1 THEN iter + 1 ELSE iter
    /\ pc' = IF iter + 1 < config.max_iters + 1 THEN "update_lr" ELSE "done"
    /\ UNCHANGED <<config, data, lr, best_val_loss, param_groups, training,
                   X, Y, est, ckpt, sink, exc, hist, ret>>

\* the loop over range(start_iter, max_iters)
TrainLogStopEarly ==
    /\ pc = "log"
    /\ LET sampled == iter % config.log_interval = 0
       IN  \E dt \in (IF sampled THEN DtValues ELSE {FZero}) :
              LET fwd_bwd_tokens == config.batch_size * config.seq_length
                  fwd_bwd_tokens_per_sec ==
                      FMul(FromInt(fwd_bwd_tokens), FDiv(FOne, dt))
                  first == running_fwd_bwd_tokens_per_sec = FZero
              IN  /\ running_fwd_bwd_tokens_per_sec' =
                        IF ~sampled THEN running_fwd_bwd_tokens_per_sec
                        ELSE IF first THEN fwd_bwd_tokens_per_sec
                        ELSE FAdd(FMul(F09, running_fwd_bwd_tokens_per_sec),
                                  FMul(F01, fwd_bwd_tokens_per_sec))
                  /\ running_iter_time' =
                        IF ~sampled THEN running_iter_time
                        ELSE IF first THEN dt
                        ELSE FAdd(FMul(F09, running_iter_time), FMul(F01, dt))
    /\ iter' = IF iter + 1 < config.max_iters THEN iter + 1 ELSE iter
    /\ pc' = IF iter + 1 < config.max_iters THEN "update_lr" ELSE "done"
    /\ UNCHANGED <<config, data, lr, best_val_loss, param_groups, training,
                   X, Y, est, ckpt, sink, exc, hist, ret>>

\* train, lines 203-219, and the loop's next iteration or its end
TrainLog ==
    /\ pc = "log"
    /\ LET sampled == iter % config.log_interval = 0
       IN  \E dt \in (IF sampled THEN DtValues ELSE {FZero}) :
              LET fwd_bwd_tokens == config.batch_size * config.seq_length
                  fwd_bwd_tokens_per_sec ==
                      FMul(FromInt(fwd_bwd_tokens), FDiv(FOne, dt))
                  first == running_fwd_bwd_tokens_per_sec = FZero
              IN  /\ running_fwd_bwd_tokens_per_sec' =
                        IF ~sampled THEN running_fwd_bwd_tokens_per_sec
                        ELSE IF first THEN fwd_bwd_tokens_per_sec
                        ELSE FAdd(FMul(F09, running_fwd_bwd_tokens_per_sec),
                                  FMul(F01, fwd_bwd_tokens_per_sec))
                  /\ running_iter_time' =
                        IF ~sampled THEN running_iter_time
                        ELSE IF first THEN dt
                        ELSE FAdd(FMul(F09, running_iter_time), FMul(F01, dt))
    /\ iter' = IF iter + 1 < config.max_iters + 1 THEN iter + 1 ELSE iter
    /\ pc' = IF iter + 1 < config.max_iters + 1 THEN "update_lr" ELSE "done"
    /\ UNCHANGED <<config, data, lr, best_val_loss, param_groups, training,
                   X, Y, est, ckpt, sink, exc, hist, ret>>

do_eval ==
    \/ EstimateBegin
    \/ EstimateBatch
    \/ EstimateRaise
    \/ EstimateEnd
    \/ EvalLog
    \/ EvalLogRaise
    \/ EvalCheckpoint

TrainConfigs ==
    [seq_length : {1}, batch_size : {1}, eval_iters : {2},
     eval_interval : 1..2, log_interval : 1..2, wandb_log : BOOLEAN,
     decay_lr : BOOLEAN,
     warmup_iters : {0, 1}, lr_decay_iters : {1, MaxIters},
     max_iters : 0..MaxIters,
     learning_rate : {FRound(3, -6)}, min_lr : {FRound(3, -8)}]

TrainData == [train |-> <<5, 6>>, val |-> <<8, 9>>]

Init ==
    /\ config \in TrainConfigs
    /\ data = TrainData
    /\ Idle

Next ==
    \/ TrainSetup
    \/ TrainUpdateLr
    \/ do_eval
    \/ TrainForward
    \/ TrainPrefetch
    \/ TrainStep
    \/ TrainLog

Spec == Init /\ [][Next]_vars

----------------------------------------------------------------------------
(* do_eval as an operation: called at any iteration with any best_val_loss *)

EvalConfigs ==
    [seq_length : {1}, batch_size : {1}, eval_iters : {2},
     eval_interval : {1}, log_interval : {1}, wandb_log : BOOLEAN,
     decay_lr : {FALSE},
     warmup_iters : {0}, lr_decay_iters : {MaxIters},
     max_iters : {MaxIters},
     learning_rate : {FRound(3, -6)}, min_lr : {FRound(3, -8)}]

InitEval ==
    /\ config \in EvalConfigs
    /\ data = TrainData
    /\ pc = "eval"
    /\ iter \in 0..MaxIters
    /\ lr = config.learning_rate
    /\ best_val_loss \in {BestInit} \cup LossValues \cup {FRound(3, -1)}
    /\ param_groups = configure_optimizers(config)
    /\ training = TRUE
    /\ X = <<<<5>>>>
    /\ Y = <<<<6>>>>
    /\ est = NoEst
    /\ ckpt = <<>>
    /\ sink = NoSink
    /\ running_fwd_bwd_tokens_per_sec \in {FZero, FromInt(2)}
    /\ running_iter_time = FDiv(FOne, FromInt(2))
    /\ exc = "none"
    /\ hist = [NoHist EXCEPT !.steps = iter]
    /\ ret = NoRet

NextEval == do_eval

SpecEval == InitEval /\ [][NextEval]_vars

----------------------------------------------------------------------------
(* get_batch as an operation: any split of any pair of token files *)

Tokens == {0, 1}

RECURSIVE SeqsOfLen(_)
SeqsOfLen(n) ==
    IF n = 0 THEN {<<>>}
    ELSE {Append(q, t) : q \in SeqsOfLen(n - 1), t \in Tokens}

Corpora == UNION {SeqsOfLen(n) : n \in 1..MaxCorpus}

BatchConfigs ==
    [seq_length : 1..2, batch_size : 1..2, eval_iters : {1},
     eval_interval : {1}, log_interval : {1}, wandb_log : {FALSE},
     decay_lr : {FALSE},
     warmup_iters : {0}, lr_decay_iters : {MaxIters},
     max_iters : {MaxIters},
     learning_rate : {FRound(3, -6)}, min_lr : {FRound(3, -8)}]

InitBatch ==
    /\ config \in BatchConfigs
    /\ data \in [train : Corpora, val : {<<1, 0>>, <<0, 1, 1, 0>>}]
    /\ Idle

CallGetBatch ==
    /\ \E split \in {"train", "val"} :
          IF BatchHigh(config, data[split]) <= 0
          THEN ret' = [fn |-> "get_batch", split |-> split, exc |-> "RuntimeError",
                       ix |-> <<>>, x |-> <<>>, y |-> <<>>]
          ELSE \E ix \in RandInt(BatchHigh(config, data[split]), config.batch_size) :
                  LET b == get_batch(config, data[split], ix)
                  IN  ret' = [fn |-> "get_batch", split |-> split, exc |-> "none",
                              ix |-> b.ix, x |-> b.x, y |-> b.y]
    /\ UNCHANGED <<config, data, pc, iter, lr, best_val_loss, param_groups,
                   training, X, Y, est, ckpt, sink,
                   running_fwd_bwd_tokens_per_sec, running_iter_time, exc, hist>>

NextBatch == CallGetBatch

SpecBatch == InitBatch /\ [][NextBatch]_vars

----------------------------------------------------------------------------
(* Properties *)

\* C1 (SpecEval): ckpt.pt is written only by the checkpoint step of a do_eval
\* whose val loss is strictly below the best_val_loss passed in and whose
\* iter is above 0; at iter = 0, or with val loss >= best_val_loss, the file
\* is left as it was.
C1_CheckpointOnlyWhenImprovedAfterStart ==
    [][ckpt' # ckpt =>
          /\ pc = "checkpoint"
          /\ FLt(est.out[2], best_val_loss)
          /\ iter > 0
          /\ ckpt'[1].iter_num = iter
          /\ ckpt'[1].best_val_loss = est.out[2]]_vars

C1_Witness ==
    /\ pc = "forward"
    /\ iter > 0
    /\ best_val_loss = FromInt(2)
    /\ ckpt # <<>>
    /\ ckpt[1].best_val_loss = FromInt(1)

\* C2 (Spec): over a run, every write of ckpt.pt has a val loss strictly below
\* the val loss of every earlier evaluation of the run, and strictly below
\* that of the snapshot it overwrites.
C2_OnlyBestSoFarIsSaved ==
    [][ckpt' # ckpt =>
          /\ FLt(ckpt'[1].best_val_loss, hist.min_val)
          /\ (ckpt # <<>> => FLt(ckpt'[1].best_val_loss, ckpt[1].best_val_loss))]_vars

EstimateErrors == {"BatchError", "ForwardError"}

\* C3 as stated (Spec): the model is in eval mode exactly while estimate_loss
\* runs, and in training mode whenever it has exited, by return or by error.
C3_TrainingModeRestoredOnEveryExit ==
    /\ pc = "estimate" => ~training
    /\ pc # "estimate" => training

\* C3 (Spec), amended: the model is in eval mode while estimate_loss runs and
\* in training mode once it has returned; when estimate_loss exits with an
\* error of a batch fetch or a forward pass the model is left in eval mode.
C3_TrainingModeRestoredOnReturn ==
    /\ pc = "estimate" => ~training
    /\ pc \notin {"estimate", "raised"} => training
    /\ pc = "raised" => (training <=> exc \notin EstimateErrors)

C3_Witness ==
    /\ pc = "sink"
    /\ Len(est.out) = 2
    /\ training

InSeq(x, q) == \E i \in DOMAIN q : q[i] = x

RECURSIVE ExpectedEvents(_, _)
ExpectedEvents(c, n) ==
    IF n < 0 THEN <<>>
    ELSE ExpectedEvents(c, n - 1)
         \o <<<<"update_lr", n>>>>
         \o (IF n % c.eval_interval = 0 THEN <<<<"eval", n>>>> ELSE <<>>)
         \o <<<<"forward", n>>, <<"step", n>>>>

IsPrefix(q, r) == Len(q) <= Len(r) /\ SubSeq(r, 1, Len(q)) = q

C5_Order ==
    /\ IsPrefix(hist.events, ExpectedEvents(config, config.max_iters))
    /\ pc = "done" =>
          /\ hist.events = ExpectedEvents(config, config.max_iters)
          /\ hist.steps = config.max_iters + 1
          /\ iter = config.max_iters

\* a measure of what is left of the run: whole iterations, then the steps of
\* the running iteration, then the batches of the running estimate_loss
C5_Rank ==
    LET w == 2 * config.eval_iters + 10
        pos == CASE pc = "update_lr"  -> w
                 [] pc = "eval"       -> w - 1
                 [] pc = "estimate"   -> w - 2 - ((est.split - 1) * config.eval_iters + est.k)
                 [] pc = "sink"       -> 7
                 [] pc = "checkpoint" -> 6
                 [] pc = "forward"    -> 5
                 [] pc = "prefetch"   -> 4
                 [] pc = "step"       -> 3
                 [] pc = "log"        -> 2
                 [] OTHER             -> 0
    IN  IF pc \in {"done", "raised"} THEN 0
        ELSE IF pc = "idle" THEN (config.max_iters + 1) * w + 1
        ELSE (config.max_iters - iter) * w + pos

\* C5 (Spec): train goes through iterations 0, 1, .., max_iters in order,
\* each being update_lr, then do_eval exactly when iter % eval_interval = 0,
\* then the forward pass, then one optimizer step; when train returns it has
\* made exactly max_iters + 1 optimizer steps; and every step of the run
\* brings its end nearer, so the run ends.
C5_IterationsInOrderThenDone ==
    /\ []C5_Order
    /\ [][C5_Rank' < C5_Rank /\ C5_Rank' >= 0]_vars

C5_Witness ==
    /\ pc = "done"
    /\ config.max_iters >= 2
    /\ config.eval_interval = 2
    /\ hist.steps = config.max_iters + 1

\* the positions of an iteration of train after its update_lr
AfterUpdateLr ==
    {"eval", "estimate", "sink", "checkpoint", "forward", "prefetch", "step", "log"}

C6_GroupsHoldScheduleValue ==
    (config.decay_lr /\ pc \in AfterUpdateLr) =>
        LET r == get_lr(config, iter)
        IN  /\ r.exc = "none"
            /\ lr = r.val
            /\ \A g \in DOMAIN param_groups : param_groups[g] = r.val
            /\ pc = "log" => hist.step_lrs = <<r.val, r.val>>

\* C6 (Spec): with decay_lr, from the update_lr of iteration iter to the end
\* of that iteration every parameter group's lr, and the lr the optimizer
\* step used, is get_lr(iter); the update_lr step changes nothing but the
\* groups' lr and train's local lr.
C6_LrWrittenBeforeEvalForwardStep ==
    /\ []C6_GroupsHoldScheduleValue
    /\ [][pc = "update_lr" =>
            UNCHANGED <<config, data, iter, best_val_loss, training, X, Y, est,
                        ckpt, sink, running_fwd_bwd_tokens_per_sec,
                        running_iter_time, ret>>]_vars

C6_Witness ==
    /\ config.decay_lr
    /\ pc = "log"
    /\ iter >= 2
    /\ hist.step_lrs[1] # config.learning_rate
    /\ hist.step_lrs[2] = get_lr(config, iter).val
    /\ get_lr(config, iter).val # get_lr(config, iter - 1).val

\* C7 (Spec): without decay_lr, update_lr returns learning_rate at every
\* iteration and both parameter groups keep the learning_rate they were
\* constructed with, up to and including every optimizer step.
C7_FlatRateWithoutDecay ==
    (~config.decay_lr /\ pc # "idle") =>
        /\ Len(param_groups) = 2
        /\ \A g \in DOMAIN param_groups : param_groups[g] = config.learning_rate
        /\ pc \in AfterUpdateLr \cup {"done"} => lr = config.learning_rate
        /\ hist.steps > 0 => hist.step_lrs = <<config.learning_rate, config.learning_rate>>
        /\ exc # "ZeroDivisionError"

C7_Witness ==
    /\ ~config.decay_lr
    /\ pc = "done"
    /\ hist.steps >= 2
    /\ config.warmup_iters > 0
    /\ get_lr(config, iter).val # config.learning_rate

\* the fields of the configuration the schedule is specified for
ScheduleConfigOk ==
    /\ 0 <= config.warmup_iters
    /\ config.warmup_iters <= config.lr_decay_iters
    /\ config.lr_decay_iters <= config.max_iters
    /\ FLe(FZero, config.min_lr)
    /\ FLe(config.min_lr, config.learning_rate)

GetLrReturned == ret.fn = "get_lr" /\ ret.out.exc = "none"

\* C8 as stated (SpecLr): every value get_lr returns is within
\* 0 .. learning_rate.
C8_LrWithinZeroAndLearningRate ==
    (ScheduleConfigOk /\ GetLrReturned) =>
        /\ FLe(FZero, ret.out.val)
        /\ FLe(ret.out.val, config.learning_rate)

\* C8 (SpecLr), amended: every value get_lr returns is at least 0; it is at
\* most learning_rate in the warmup and plateau phases, and in the cosine
\* phase at most the float next above learning_rate.
C8_LrWithinOneStepOfLearningRate ==
    (ScheduleConfigOk /\ GetLrReturned) =>
        /\ FLe(FZero, ret.out.val)
        /\ (ret.it < config.warmup_iters \/ ret.it > config.lr_decay_iters)
              => FLe(ret.out.val, config.learning_rate)
        /\ config.learning_rate = FZero => ret.out.val = FZero
        /\ config.learning_rate # FZero
              => FLe(ret.out.val, FNextUp(config.learning_rate))

C8_Witness ==
    /\ ScheduleConfigOk
    /\ GetLrReturned
    /\ config.warmup_iters < ret.it
    /\ ret.it < config.lr_decay_iters
    /\ FLt(config.min_lr, ret.out.val)
    /\ FLt(ret.out.val, config.learning_rate)

\* C9 as stated (SpecLr), for the calls that return: get_lr(0) = 0 when
\* warmup_iters > 0, get_lr(warmup_iters) = learning_rate, get_lr(it) = min_lr
\* for it > lr_decay_iters.
C9_ScheduleBoundariesExact ==
    (ScheduleConfigOk /\ GetLrReturned) =>
        /\ (ret.it = 0 /\ config.warmup_iters > 0) => ret.out.val = FZero
        /\ ret.it = config.warmup_iters => ret.out.val = config.learning_rate
        /\ ret.it > config.lr_decay_iters => ret.out.val = config.min_lr

\* C9 (SpecLr), amended: get_lr(0) = 0 when warmup_iters > 0 and
\* get_lr(it) = min_lr for it > lr_decay_iters; get_lr(warmup_iters) raises
\* ZeroDivisionError when warmup_iters = lr_decay_iters, and otherwise is
\* learning_rate or one of the two floats next to it (learning_rate itself
\* when min_lr = 0).
C9_ScheduleBoundaries ==
    (ScheduleConfigOk /\ ret.fn = "get_lr") =>
        /\ (ret.it = 0 /\ config.warmup_iters > 0) => ret.out = Returned(FZero)
        /\ ret.it > config.lr_decay_iters => ret.out = Returned(config.min_lr)
        /\ (ret.it = config.warmup_iters
              /\ config.warmup_iters = config.lr_decay_iters)
              => ret.out.exc = "ZeroDivisionError"
        /\ (ret.it = config.warmup_iters
              /\ config.warmup_iters < config.lr_decay_iters)
              => /\ ret.out.exc = "none"
                 /\ (config.min_lr = FZero \/ config.learning_rate = FZero)
                       => ret.out.val = config.learning_rate
                 /\ config.learning_rate # FZero
                       => ret.out.val \in {FNextDown(config.learning_rate),
                                           config.learning_rate,
                                           FNextUp(config.learning_rate)}

C9_Witness ==
    /\ ScheduleConfigOk
    /\ ret.fn = "get_lr"
    /\ config.warmup_iters > 0
    /\ ret.it = config.warmup_iters
    /\ config.warmup_iters < config.lr_decay_iters
    /\ config.min_lr # FZero
    /\ ret.out = Returned(config.learning_rate)

\* C10 (SpecBatch): for a token file of length L >= seq_length + 1 every
\* start index of a batch is within 0 .. L - seq_length - 1, every input and
\* target row has seq_length tokens of the file, target position j holds the
\* file's token right after the one at input position j, and so equals input
\* position j + 1.
C10_BatchWindowsInsideCorpus ==
    (ret.fn = "get_batch" /\ Len(data[ret.split]) >= config.seq_length + 1) =>
        LET d == data[ret.split]
            S == config.seq_length
        IN  /\ ret.exc = "none"
            /\ Len(ret.ix) = config.batch_size
            /\ \A k \in DOMAIN ret.ix :
                  /\ 0 <= ret.ix[k]
                  /\ ret.ix[k] <= Len(d) - S - 1
                  /\ Len(ret.x[k]) = S
                  /\ Len(ret.y[k]) = S
                  /\ \A j \in 1..S :
                        /\ ret.x[k][j] = d[ret.ix[k] + j]
                        /\ ret.y[k][j] = d[ret.ix[k] + j + 1]
                        /\ j < S => ret.y[k][j] = ret.x[k][j + 1]

C10_Witness ==
    /\ ret.fn = "get_batch"
    /\ ret.exc = "none"
    /\ config.seq_length = 2
    /\ config.batch_size = 2
    /\ Len(data[ret.split]) = config.seq_length + 1
    /\ ret.x = <<<<0, 1>>, <<0, 1>>>>
    /\ ret.y = <<<<1, 1>>, <<1, 1>>>>

\* C11 (Spec): a throughput and step-time sample is taken only in the logging
\* step of an iteration with iter % log_interval = 0.  The first sample of a
\* run (no earlier iteration of the run was sampled) sets the smoothed
\* throughput and the smoothed step time to the sample itself; every later
\* sample sets each to 0.9 * smoothed + 0.1 * sample; every other step of the
\* run, the steps of an evaluation included, leaves both unchanged.
SamplesBefore(it) ==
    Cardinality({j \in 0..(it - 1) : j % config.log_interval = 0})

C11_SmoothedFollowsSamples ==
    [][ LET sample_step == pc = "log" /\ iter % config.log_interval = 0
            tokens == FromInt(config.batch_size * config.seq_length)
            Throughput(dt) == FMul(tokens, FDiv(FOne, dt))
        IN  /\ ~sample_step =>
                  /\ running_fwd_bwd_tokens_per_sec' = running_fwd_bwd_tokens_per_sec
                  /\ running_iter_time' = running_iter_time
            /\ (sample_step /\ SamplesBefore(iter) = 0) =>
                  \E dt \in DtValues :
                     /\ running_iter_time' = dt
                     /\ running_fwd_bwd_tokens_per_sec' = Throughput(dt)
            /\ (sample_step /\ SamplesBefore(iter) > 0) =>
                  \E dt \in DtValues :
                     /\ running_iter_time' =
                           FAdd(FMul(FDivInt(9, 10), running_iter_time),
                                FMul(FDivInt(1, 10), dt))
                     /\ running_fwd_bwd_tokens_per_sec' =
                           FAdd(FMul(FDivInt(9, 10), running_fwd_bwd_tokens_per_sec),
                                FMul(FDivInt(1, 10), Throughput(dt)))
      ]_vars

C11_Witness ==
    /\ config.log_interval = 2
    /\ hist.steps = 3
    /\ pc \in {"update_lr", "done"}
    /\ running_iter_time \notin (DtValues \cup {FZero})
    /\ running_fwd_bwd_tokens_per_sec \notin
          ({FMul(FromInt(config.batch_size * config.seq_length), FDiv(FOne, dt)) :
               dt \in DtValues} \cup {FZero})

\* C12 (SpecLr): for every configuration with
\* warmup_iters <= lr_decay_iters <= max_iters, warmup_iters = lr_decay_iters
\* included, and every it in 0 .. max_iters, get_lr(it) completes and returns
\* a value: neither the division by lr_decay_iters - warmup_iters nor the
\* assertion 0 <= decay_ratio <= 1 raises.
C12_GetLrAlwaysReturns ==
    (/\ ret.fn = "get_lr"
     /\ 0 <= config.warmup_iters
     /\ config.warmup_iters <= config.lr_decay_iters
     /\ config.lr_decay_iters <= config.max_iters
     /\ ret.it \in 0..config.max_iters)
        => ret.out.exc = "none"

====
